---- MODULE Spec2Model ----
(***************************************************************************)
(* Model of the voice-chat backend: upload staging (utils/audio.py), the   *)
(* transcription resolver (services/transcribe.py), the chat call          *)
(* (services/chat.py) and the three request handlers (views.py).           *)
(*                                                                         *)
(* Strings are sequences of tokens; the token " " is a whitespace          *)
(* character, every other token is a run of non-whitespace text.           *)
(***************************************************************************)
EXTENDS Integers, Sequences, FiniteSets, TLC

\* ------------------------------------------------------------- bounds
\* Longest transcript / recognised text, in tokens.
MaxLen == 1
\* Number of distinct names the temporary directory can hand out.
MaxPaths == 2

\* ------------------------------------------------------------- strings
Chars == {" ", "a"}

RECURSIVE StringsUpTo(_)
StringsUpTo(n) ==
    IF n = 0 THEN {<<>>}
    ELSE LET S == StringsUpTo(n - 1)
         IN  S \cup {Append(s, c) : s \in {t \in S : Len(t) = n - 1}, c \in Chars}

Texts == StringsUpTo(MaxLen)

\* str.strip(): drop leading, then trailing, whitespace.
RECURSIVE LStrip(_)
LStrip(s) == IF s # <<>> /\ Head(s) = " " THEN LStrip(Tail(s)) ELSE s

RECURSIVE RStrip(_)
RStrip(s) ==
    IF s # <<>> /\ s[Len(s)] = " " THEN RStrip(SubSeq(s, 1, Len(s) - 1)) ELSE s

Strip(s) == RStrip(LStrip(s))

\* str(ex) of the exceptions the dependencies raise (may be empty).
Details == {<<>>, <<"e">>}

\* ------------------------------------------------------------- messages
OpenAINotConfigured == <<"OpenAI is not configured.">>
OpenAIFailedPrefix == <<"OpenAI transcription failed: ">>
SrNotAvailable == <<"SpeechRecognition is not available.">>
CouldNotReadPrefix == <<"Could not read audio file: ">>
SrFailedPrefix == <<"SpeechRecognition failed: ">>
TranscriptionFailed == <<"Transcription failed.">>
TranscriptEmpty == <<"Transcript is empty.">>
ChatNotConfigured ==
    <<"OpenAI is not configured. Please set OPENAI_API_KEY to enable chat replies.">>

\* ------------------------------------------------------------- Python values
\* A value of the remote response: None, a str, a dict (with or without a
\* "text" key, whose value is None or a str) or some other object (a list).
NoneV == [t |-> "none", key |-> "absent", s |-> <<>>]
StrV(s) == [t |-> "str", key |-> "absent", s |-> s]
DictNoText == [t |-> "dict", key |-> "absent", s |-> <<>>]
DictTextNone == [t |-> "dict", key |-> "none", s |-> <<>>]
DictText(s) == [t |-> "dict", key |-> "str", s |-> s]
ListEmpty == [t |-> "list", key |-> "absent", s |-> <<"[]">>]
ListNonEmpty == [t |-> "list", key |-> "absent", s |-> <<"[x]">>]

\* bool(v)
Truthy(v) ==
    CASE v.t = "none" -> FALSE
      [] v.t = "str" -> v.s # <<>>
      [] v.t = "dict" -> v.key # "absent"
      [] v.t = "list" -> v = ListNonEmpty

\* str(v)
PyStr(v) ==
    CASE v.t = "none" -> <<"None">>
      [] v.t = "str" -> v.s
      [] v.t = "dict" -> <<"{...}">>
      [] v.t = "list" -> v.s

\* d.get("text", "")
DictGetText(d) ==
    CASE d.key = "absent" -> StrV(<<>>)
      [] d.key = "none" -> NoneV
      [] d.key = "str" -> StrV(d.s)

\* The strings a response can carry at one place: empty, blank, padded text.
StrsOf(c) == {<<>>, <<" ">>, <<" ", c, " ">>}
DictsOf(c) == {DictNoText, DictTextNone} \cup {DictText(s) : s \in StrsOf(c)}

\* str(resp)
RespRepr == <<"<resp>">>

\* The shapes of the object client.audio.transcriptions.create returns.
RespShapes ==
    {resp \in [has_text : BOOLEAN,
               text : {NoneV} \cup {StrV(s) : s \in StrsOf("t")},
               data : {NoneV, ListEmpty, ListNonEmpty, StrV(<<"s">>)} \cup DictsOf("d"),
               has_to_dict : BOOLEAN,
               to_dict : DictsOf("k")] :
        /\ ~resp.has_text => resp.text = NoneV
        /\ ~resp.has_to_dict => resp.to_dict = DictNoText}

\* getattr(resp, "text", "")
AttrText(resp) == IF resp.has_text THEN resp.text ELSE StrV(<<>>)

\* transcribe.py lines 45-53: the text _transcribe_with_openai returns for resp.
ExtractText(resp) ==
    LET t1 == IF Truthy(AttrText(resp)) THEN AttrText(resp) ELSE resp.data
        t2 == IF t1.t = "dict" THEN DictGetText(t1) ELSE t1
        t3 == IF ~Truthy(t2) /\ resp.has_to_dict THEN DictGetText(resp.to_dict) ELSE t2
        t4 == IF ~Truthy(t3) THEN StrV(RespRepr) ELSE t3
    IN  Strip(PyStr(t4))

\* The shapes of the object client.chat.completions.create returns.
ChatShapes == [has_choices : BOOLEAN, content : {NoneV, StrV(<<>>), StrV(<<"hi">>)}]

\* chat.py lines 41-44: the reply send_chat returns for resp.
ChatReply(resp) ==
    IF resp.has_choices /\ Truthy(resp.content) THEN resp.content.s ELSE <<>>

\* chat.py lines 29-32: the message list sent to the chat service.
ChatMessages(message, context) ==
    (IF context # <<>> THEN << <<"system", context>> >> ELSE <<>>)
        \o << <<"user", message>> >>

\* ------------------------------------------------------------- state
Reqs == {"w1", "w2"}
Paths == 1 .. MaxPaths
NoPath == 0
NoFile == "nofile"
Orphan == "orphan"

VARIABLES
    settings,   \* django settings and importable libraries, fixed at start-up
    files,      \* temporary directory: name -> request that created the file
    req,        \* per worker: position and locals of the request it handles
                \* (pc "off": the deployment does not run this worker)
    ex_resp,    \* extraction: the remote response under test
    ex_out      \* extraction: what _transcribe_with_openai returned for it

vars == <<settings, files, req, ex_resp, ex_out>>

NoOut ==
    [kind |-> "none", ok |-> FALSE, status |-> 0, error |-> <<>>,
     transcript |-> <<>>, reply |-> <<>>, debug |-> FALSE, src |-> "none"]

\* rest_framework Response({"ok": ..., ...}, status=...)
Response(ok, status, error, transcript, reply) ==
    [kind |-> "response", ok |-> ok, status |-> status, error |-> error,
     transcript |-> transcript, reply |-> reply, debug |-> FALSE, src |-> "none"]

\* An exception raised inside src and not caught by the handler.
Raised(src, detail) ==
    [kind |-> "raised", ok |-> FALSE, status |-> 500, error |-> detail,
     transcript |-> <<>>, reply |-> <<>>, debug |-> FALSE, src |-> src]

IdleReq ==
    [pc |-> "idle", kind |-> "none", message |-> <<>>, context |-> <<>>,
     path |-> NoPath, tmp_path |-> NoPath, ok |-> FALSE, text |-> <<>>,
     calls |-> <<>>, out |-> NoOut]

Ev(dep, out, val) == [dep |-> dep, out |-> out, val |-> val]

\* settings.OPENAI_API_KEY with the getattr default "".
ApiKey == IF settings.has_key THEN settings.key ELSE <<>>

Settings ==
    [has_key : BOOLEAN, key : {<<>>, <<" ">>, <<" ", "k">>},
     openai_lib : BOOLEAN, sr_lib : BOOLEAN, debug : BOOLEAN]

NoResp == "none"
NotExtracting == [ran |-> FALSE, ok |-> FALSE, text |-> <<>>]

\* A deployment with one worker, under every configuration.
Init ==
    /\ settings \in {c \in Settings : ~c.has_key => c.key = <<>>}
    /\ files = [p \in Paths |-> NoFile]
    /\ req = [r \in Reqs |-> IF r = "w1" THEN IdleReq ELSE [IdleReq EXCEPT !.pc = "off"]]
    /\ ex_resp = NoResp
    /\ ex_out = NotExtracting

\* ------------------------------------------------------------- helpers
Set(r, q) == req' = [req EXCEPT ![r] = q]
Logged(q, e) == Append(q.calls, e)
Exists(p) == p # NoPath /\ files[p] # NoFile

\* Mutant of KeyConfigured: the key is tested without trimming it.
KeyConfiguredUntrimmed == ApiKey # <<>>

\* transcribe.py line 100: is a remote credential configured?
KeyConfigured == Strip(ApiKey) # <<>>

\* Mutant of FreeNames: the name generator ignores the files that exist.
AnyName == Paths

\* tempfile.mkstemp opens with O_EXCL: only a name no file has is handed out.
FreeNames == {p \in Paths : files[p] = NoFile}

\* ------------------------------------------------------------- handlers: entry
\* views.py lines 52-57, 98-103, 140-145: serializer validation of a new request.
Receive(r) ==
    /\ req[r].pc = "idle"
    /\ \E kind \in {"transcribe", "voice_chat", "chat"}, valid \in BOOLEAN,
          context \in {<<>>, <<"c">>} :
        IF ~valid
        THEN Set(r, [req[r] EXCEPT !.pc = "done", !.kind = kind,
                        !.out = Response(FALSE, 400, <<"validation">>, <<>>, <<>>)])
        ELSE IF kind = "chat"
        THEN Set(r, [req[r] EXCEPT !.pc = "chat", !.kind = kind,
                        !.message = <<"m">>, !.context = context])
        ELSE Set(r, [req[r] EXCEPT !.pc = "save", !.kind = kind])
    /\ UNCHANGED <<settings, files, ex_resp, ex_out>>

\* ------------------------------------------------------------- upload staging
\* audio.py lines 24-25: create the temporary file (may raise OSError). The
\* suffix inferred from the content type is part of the name only.
Mkstemp(r) ==
    /\ req[r].pc = "save"
    /\ \/ \E p \in FreeNames :
            /\ files' = [files EXCEPT ![p] = r]
            /\ Set(r, [req[r] EXCEPT !.pc = "write", !.path = p])
       \/ \E d \in Details :
            /\ Set(r, [req[r] EXCEPT !.pc = "finally",
                          !.out = Raised("save_uploaded_file_temporarily", d)])
            /\ UNCHANGED files
    /\ UNCHANGED <<settings, ex_resp, ex_out>>

\* audio.py lines 26-29 and views.py line 59 / 147: stream the chunks into the
\* file and hand the path to the handler; a failing read or write raises, and
\* the handler's tmp_path is then never assigned.
WriteChunks(r) ==
    /\ req[r].pc = "write"
    /\ \/ Set(r, [req[r] EXCEPT !.pc = "ta", !.tmp_path = req[r].path])
       \/ \E d \in Details :
            Set(r, [req[r] EXCEPT !.pc = "finally",
                       !.out = Raised("save_uploaded_file_temporarily", d)])
    /\ UNCHANGED <<settings, files, ex_resp, ex_out>>

\* ------------------------------------------------------------- transcription
\* transcribe.py lines 100-101: try the remote stage first if a key is configured.
TaStart(r) ==
    /\ req[r].pc = "ta"
    /\ IF KeyConfigured
       THEN Set(r, [req[r] EXCEPT !.pc = "oa_client",
                       !.calls = Logged(req[r], Ev("_transcribe_with_openai", "call", <<>>))])
       ELSE Set(r, [req[r] EXCEPT !.pc = "sr"])
    /\ UNCHANGED <<settings, files, ex_resp, ex_out>>

\* transcribe.py lines 24-35: _openai_client and the "not configured" return.
\* The constructor runs outside any try block.
OaClient(r) ==
    /\ req[r].pc = "oa_client"
    /\ IF Strip(ApiKey) = <<>> \/ ~settings.openai_lib
       THEN Set(r, [req[r] EXCEPT !.pc = "ta_check", !.ok = FALSE,
                       !.text = OpenAINotConfigured,
                       !.calls = Logged(req[r],
                           Ev("_transcribe_with_openai", "ret_fail", OpenAINotConfigured))])
       ELSE \/ Set(r, [req[r] EXCEPT !.pc = "oa_create",
                          !.calls = Logged(req[r], Ev("OpenAI", "ret", Strip(ApiKey)))])
            \/ \E d \in Details :
                 Set(r, [req[r] EXCEPT !.pc = "finally",
                            !.calls = Logged(req[r], Ev("OpenAI", "raise", d)),
                            !.out = Raised("transcribe_audio", d)])
    /\ UNCHANGED <<settings, files, ex_resp, ex_out>>

\* transcribe.py lines 36-55: open the file, call the remote service, extract
\* the text; any exception becomes (False, "OpenAI transcription failed: ...").
OaCreate(r) ==
    /\ req[r].pc = "oa_create"
    /\ \/ /\ Exists(req[r].tmp_path)
          /\ \E resp \in RespShapes :
               Set(r, [req[r] EXCEPT !.pc = "ta_check", !.ok = TRUE,
                          !.text = ExtractText(resp),
                          !.calls = Logged(req[r], Ev("transcriptions.create", "ret", <<>>))
                              \o <<Ev("_transcribe_with_openai", "ret_ok", ExtractText(resp))>>])
       \/ \E d \in Details :
            Set(r, [req[r] EXCEPT !.pc = "ta_check", !.ok = FALSE,
                       !.text = OpenAIFailedPrefix \o d,
                       !.calls = Logged(req[r],
                           Ev(IF Exists(req[r].tmp_path) THEN "transcriptions.create"
                              ELSE "open", "raise", d))
                           \o <<Ev("_transcribe_with_openai", "ret_fail",
                                   OpenAIFailedPrefix \o d)>>])
    /\ UNCHANGED <<settings, files, ex_resp, ex_out>>

\* Mutant of RemoteSucceeded: the early return is missing.
RemoteSucceededIgnored(q) == FALSE

\* transcribe.py lines 102-103: "if ok: return True, text".
RemoteSucceeded(q) == q.ok

\* transcribe.py lines 102-106: return at once on remote success, else fall back.
TaCheck(r) ==
    /\ req[r].pc = "ta_check"
    /\ IF RemoteSucceeded(req[r])
       THEN Set(r, [req[r] EXCEPT !.pc = "h_ta",
                       !.calls = Logged(req[r], Ev("transcribe_audio", "ret_ok", req[r].text))])
       ELSE Set(r, [req[r] EXCEPT !.pc = "sr"])
    /\ UNCHANGED <<settings, files, ex_resp, ex_out>>

\* transcribe.py lines 64-67: the fallback library may be absent; the
\* Recognizer constructor runs outside any try block.
SrStart(r) ==
    /\ req[r].pc = "sr"
    /\ LET called == Logged(req[r], Ev("_transcribe_with_speech_recognition", "call", <<>>))
       IN  IF ~settings.sr_lib
           THEN Set(r, [req[r] EXCEPT !.pc = "ta_ret", !.ok = FALSE,
                           !.text = SrNotAvailable,
                           !.calls = Append(called,
                               Ev("_transcribe_with_speech_recognition", "ret_fail",
                                  SrNotAvailable))])
           ELSE \/ Set(r, [req[r] EXCEPT !.pc = "sr_record",
                              !.calls = Append(called, Ev("Recognizer", "ret", <<>>))])
                \/ \E d \in Details :
                     Set(r, [req[r] EXCEPT !.pc = "finally",
                                !.calls = Append(called, Ev("Recognizer", "raise", d)),
                                !.out = Raised("transcribe_audio", d)])
    /\ UNCHANGED <<settings, files, ex_resp, ex_out>>

\* transcribe.py lines 69-73: read the whole file into an audio buffer.
SrRecord(r) ==
    /\ req[r].pc = "sr_record"
    /\ \/ /\ Exists(req[r].tmp_path)
          /\ Set(r, [req[r] EXCEPT !.pc = "sr_sphinx",
                        !.calls = Logged(req[r], Ev("record", "ret", <<>>))])
       \/ \E d \in Details :
            Set(r, [req[r] EXCEPT !.pc = "ta_ret", !.ok = FALSE,
                       !.text = CouldNotReadPrefix \o d,
                       !.calls = Logged(req[r], Ev("record", "raise", d))
                           \o <<Ev("_transcribe_with_speech_recognition", "ret_fail",
                                   CouldNotReadPrefix \o d)>>])
    /\ UNCHANGED <<settings, files, ex_resp, ex_out>>

\* Mutant of SrSphinx: an offline-recognizer error ends the stage.
SrSphinxFatal(r) ==
    /\ req[r].pc = "sr_sphinx"
    /\ \/ \E t \in Texts :
            Set(r, [req[r] EXCEPT !.pc = "ta_ret", !.ok = TRUE, !.text = t,
                       !.calls = Logged(req[r], Ev("recognize_sphinx", "ret", t))
                           \o <<Ev("_transcribe_with_speech_recognition", "ret_ok", t)>>])
       \/ \E d \in Details :
            Set(r, [req[r] EXCEPT !.pc = "ta_ret", !.ok = FALSE,
                       !.text = SrFailedPrefix \o d,
                       !.calls = Logged(req[r], Ev("recognize_sphinx", "raise", d))
                           \o <<Ev("_transcribe_with_speech_recognition", "ret_fail",
                                   SrFailedPrefix \o d)>>])
    /\ UNCHANGED <<settings, files, ex_resp, ex_out>>

\* transcribe.py lines 75-79: offline recognition; an exception is swallowed.
SrSphinx(r) ==
    /\ req[r].pc = "sr_sphinx"
    /\ \/ \E t \in Texts :
            Set(r, [req[r] EXCEPT !.pc = "ta_ret", !.ok = TRUE, !.text = t,
                       !.calls = Logged(req[r], Ev("recognize_sphinx", "ret", t))
                           \o <<Ev("_transcribe_with_speech_recognition", "ret_ok", t)>>])
       \/ \E d \in Details :
            Set(r, [req[r] EXCEPT !.pc = "sr_google",
                       !.calls = Logged(req[r], Ev("recognize_sphinx", "raise", d))])
    /\ UNCHANGED <<settings, files, ex_resp, ex_out>>

\* transcribe.py lines 81-85: online recognition; an exception is the failure.
SrGoogle(r) ==
    /\ req[r].pc = "sr_google"
    /\ \/ \E t \in Texts :
            Set(r, [req[r] EXCEPT !.pc = "ta_ret", !.ok = TRUE, !.text = t,
                       !.calls = Logged(req[r], Ev("recognize_google", "ret", t))
                           \o <<Ev("_transcribe_with_speech_recognition", "ret_ok", t)>>])
       \/ \E d \in Details :
            Set(r, [req[r] EXCEPT !.pc = "ta_ret", !.ok = FALSE,
                       !.text = SrFailedPrefix \o d,
                       !.calls = Logged(req[r], Ev("recognize_google", "raise", d))
                           \o <<Ev("_transcribe_with_speech_recognition", "ret_fail",
                                   SrFailedPrefix \o d)>>])
    /\ UNCHANGED <<settings, files, ex_resp, ex_out>>

\* Mutant of Consolidated: the stage's message is replaced by the generic one.
ConsolidatedGeneric(text) == TranscriptionFailed

\* transcribe.py line 111: text or "Transcription failed."
Consolidated(text) == IF text # <<>> THEN text ELSE TranscriptionFailed

\* transcribe.py lines 106-111: the result of the fallback stage is the result.
TaReturn(r) ==
    /\ req[r].pc = "ta_ret"
    /\ IF req[r].ok
       THEN Set(r, [req[r] EXCEPT !.pc = "h_ta",
                       !.calls = Logged(req[r], Ev("transcribe_audio", "ret_ok", req[r].text))])
       ELSE Set(r, [req[r] EXCEPT !.pc = "h_ta", !.text = Consolidated(req[r].text),
                       !.calls = Logged(req[r],
                           Ev("transcribe_audio", "ret_fail", Consolidated(req[r].text)))])
    /\ UNCHANGED <<settings, files, ex_resp, ex_out>>

\* ------------------------------------------------------------- handlers: body
\* views.py lines 60-65: transcribe_view answers with the transcript (marked
\* "debug" under settings.DEBUG_TRANSCRIPTS) or the error.
HandleTranscribe(r) ==
    /\ req[r].pc = "h_ta"
    /\ req[r].kind = "transcribe"
    /\ IF req[r].ok
       THEN Set(r, [req[r] EXCEPT !.pc = "finally",
                       !.out = [Response(TRUE, 200, <<>>, req[r].text, <<>>)
                                   EXCEPT !.debug = settings.debug]])
       ELSE Set(r, [req[r] EXCEPT !.pc = "finally",
                       !.out = Response(FALSE, 500, req[r].text, <<>>, <<>>)])
    /\ UNCHANGED <<settings, files, ex_resp, ex_out>>

\* Mutant of Transcript: the transcript is not trimmed.
TranscriptUntrimmed(result) == result

\* views.py line 152: transcript = result.strip()
Transcript(result) == Strip(result)

\* views.py lines 148-156: voice_chat_view stops on failure or an empty
\* transcript, else goes on to send_chat(message=transcript, context="").
HandleVoice(r) ==
    /\ req[r].pc = "h_ta"
    /\ req[r].kind = "voice_chat"
    /\ IF ~req[r].ok
       THEN Set(r, [req[r] EXCEPT !.pc = "finally",
                       !.out = Response(FALSE, 500, req[r].text, <<>>, <<>>)])
       ELSE IF Transcript(req[r].text) = <<>>
       THEN Set(r, [req[r] EXCEPT !.pc = "finally",
                       !.out = Response(FALSE, 500, TranscriptEmpty, <<>>, <<>>)])
       ELSE Set(r, [req[r] EXCEPT !.pc = "chat",
                       !.message = Transcript(req[r].text), !.context = <<>>])
    /\ UNCHANGED <<settings, files, ex_resp, ex_out>>

\* ------------------------------------------------------------- chat
\* views.py lines 106-107 and 156-157: send_chat returned reply.
ChatReturned(q, reply) ==
    IF q.kind = "chat"
    THEN [q EXCEPT !.pc = "done", !.out = Response(TRUE, 200, <<>>, <<>>, reply)]
    ELSE [q EXCEPT !.pc = "finally",
                   !.out = Response(TRUE, 200, <<>>, q.message, reply)]

\* views.py lines 108-109 (chat_view catches) and 146-159 (voice_chat_view has
\* a finally clause only): send_chat raised.
ChatRaised(q, d) ==
    IF q.kind = "chat"
    THEN [q EXCEPT !.pc = "done", !.out = Response(FALSE, 500, d, <<>>, <<>>)]
    ELSE [q EXCEPT !.pc = "finally", !.out = Raised("send_chat", d)]

\* chat.py lines 11-26: send_chat builds its client, or answers that OpenAI
\* is not configured.
ChatClient(r) ==
    /\ req[r].pc = "chat"
    /\ LET q == [req[r] EXCEPT !.calls = Logged(req[r],
                     Ev("send_chat", "call", req[r].message))]
       IN  IF Strip(ApiKey) = <<>> \/ ~settings.openai_lib
           THEN Set(r, ChatReturned(q, ChatNotConfigured))
           ELSE \/ Set(r, [q EXCEPT !.pc = "chat_create"])
                \/ \E d \in Details :
                     Set(r, ChatRaised([q EXCEPT !.calls =
                         Logged(q, Ev("send_chat", "raise", d))], d))
    /\ UNCHANGED <<settings, files, ex_resp, ex_out>>

\* chat.py lines 28-44: the remote chat call and the extraction of the reply.
ChatCreate(r) ==
    /\ req[r].pc = "chat_create"
    /\ LET q == [req[r] EXCEPT !.calls = Logged(req[r],
                     Ev("chat.completions.create", "call",
                        ChatMessages(req[r].message, req[r].context)))]
       IN  \/ \E resp \in ChatShapes : Set(r, ChatReturned(q, ChatReply(resp)))
           \/ \E d \in Details :
                Set(r, ChatRaised([q EXCEPT !.calls =
                    Logged(q, Ev("send_chat", "raise", d))], d))
    /\ UNCHANGED <<settings, files, ex_resp, ex_out>>

\* ------------------------------------------------------------- cleanup
\* audio.py lines 33-42 called from views.py lines 66-67 / 158-159: delete the
\* file if a path is known and the file exists; a failing os.remove is ignored.
Finally(r) ==
    /\ req[r].pc = "finally"
    /\ \/ /\ Exists(req[r].tmp_path)
          /\ files' = [files EXCEPT ![req[r].tmp_path] = NoFile]
       \/ UNCHANGED files
    /\ Set(r, [req[r] EXCEPT !.pc = "done"])
    /\ UNCHANGED <<settings, ex_resp, ex_out>>

\* The handler has exited and the worker takes the next request; a file the
\* request left behind now belongs to no request.
Exit(r) ==
    /\ req[r].pc = "done"
    /\ req' = [req EXCEPT ![r] = IdleReq]
    /\ files' = [p \in Paths |-> IF files[p] = r THEN Orphan ELSE files[p]]
    /\ UNCHANGED <<settings, ex_resp, ex_out>>

Next ==
    \E r \in Reqs :
        \/ Receive(r)
        \/ Mkstemp(r)
        \/ WriteChunks(r)
        \/ TaStart(r)
        \/ OaClient(r)
        \/ OaCreate(r)
        \/ TaCheck(r)
        \/ SrStart(r)
        \/ SrRecord(r)
        \/ SrSphinx(r)
        \/ SrGoogle(r)
        \/ TaReturn(r)
        \/ HandleTranscribe(r)
        \/ HandleVoice(r)
        \/ ChatClient(r)
        \/ ChatCreate(r)
        \/ Finally(r)
        \/ Exit(r)

Spec == Init /\ [][Next]_vars

\* ------------------------------------------------------------- two workers
\* A deployment with two workers sharing the temporary directory and no remote
\* credential (OPENAI_API_KEY unset): with or without the fallback library.
InitWorkers ==
    /\ settings \in {c \in Settings :
                        ~c.has_key /\ c.key = <<>> /\ c.openai_lib /\ ~c.debug}
    /\ files = [p \in Paths |-> NoFile]
    /\ req = [r \in Reqs |-> IdleReq]
    /\ ex_resp = NoResp
    /\ ex_out = NotExtracting

\* Without a credential TaStart and ChatClient never reach the remote-stage
\* steps; the steps that remain are the whole next-state relation.
NextWorkers ==
    \E r \in Reqs :
        \/ Receive(r)
        \/ Mkstemp(r)
        \/ WriteChunks(r)
        \/ TaStart(r)
        \/ SrStart(r)
        \/ SrRecord(r)
        \/ SrSphinx(r)
        \/ SrGoogle(r)
        \/ TaReturn(r)
        \/ HandleTranscribe(r)
        \/ HandleVoice(r)
        \/ ChatClient(r)
        \/ Finally(r)
        \/ Exit(r)

SpecWorkers == InitWorkers /\ [][NextWorkers]_vars

\* ------------------------------------------------------------- extraction
\* _transcribe_with_openai's handling of one remote response, for every shape
\* of response, with the remote stage configured.
InitExtract ==
    /\ settings = [has_key |-> TRUE, key |-> <<" ", "k">>, openai_lib |-> TRUE,
                   sr_lib |-> TRUE, debug |-> FALSE]
    /\ files = [p \in Paths |-> NoFile]
    /\ req = [r \in Reqs |-> [IdleReq EXCEPT !.pc = "off"]]
    /\ ex_resp \in RespShapes
    /\ ex_out = NotExtracting

\* transcribe.py lines 45-53 applied to the response.
Extract ==
    /\ ~ex_out.ran
    /\ ex_out' = [ran |-> TRUE, ok |-> TRUE, text |-> ExtractText(ex_resp)]
    /\ UNCHANGED <<settings, files, req, ex_resp>>

NextExtract == Extract

SpecExtract == InitExtract /\ [][NextExtract]_vars

\* ------------------------------------------------------------- properties
Is(e, dep, out) == e.dep = dep /\ e.out = out
Called(q, deps) == \E i \in DOMAIN q.calls : q.calls[i].dep \in deps
RemoteDeps == {"_transcribe_with_openai", "OpenAI", "open", "transcriptions.create"}
FallbackDeps ==
    {"_transcribe_with_speech_recognition", "Recognizer", "record",
     "recognize_sphinx", "recognize_google"}
InFlight(r) == req[r].pc \notin {"off", "idle", "done"}
\* The handler holds a staged path and has not yet run its cleanup.
Staged(r) == InFlight(r) /\ req[r].tmp_path # NoPath

\* C1: when a transcribe or voice-chat handler has exited, on whatever path,
\* the temporary file created for that request no longer exists.
C1_StagedFileGoneAtExit ==
    \A r \in Reqs : req[r].pc = "done" => \A p \in Paths : files[p] # r

\* C2: no exception leaves save_uploaded_file_temporarily or transcribe_audio;
\* every failure of their dependencies comes back as a result.
C2_StagingAndResolverNeverRaise ==
    \A r \in Reqs :
        req[r].out.kind = "raised" =>
            req[r].out.src \notin {"save_uploaded_file_temporarily", "transcribe_audio"}

\* C3: in chat_view and voice_chat_view an exception raised by send_chat is
\* caught in the handler and answered with ok=false; it never escapes.
C3_ChatExceptionCaught ==
    \A r \in Reqs :
        (/\ req[r].pc = "done"
         /\ \E i \in DOMAIN req[r].calls : Is(req[r].calls[i], "send_chat", "raise"))
            => req[r].out.kind = "response" /\ ~req[r].out.ok

\* C4: when the remote stage returns ok=true, no part of the fallback is ever
\* invoked and transcribe_audio returns (true, the remote stage's text).
C4_RemoteSuccessShortCircuits ==
    \A r \in Reqs :
        LET q == req[r]
        IN  \A i \in DOMAIN q.calls :
                Is(q.calls[i], "_transcribe_with_openai", "ret_ok") =>
                    /\ ~Called(q, FallbackDeps)
                    /\ \/ q.pc = "ta_check" /\ i = Len(q.calls)
                       \/ /\ i < Len(q.calls)
                          /\ Is(q.calls[i + 1], "transcribe_audio", "ret_ok")
                          /\ q.calls[i + 1].val = q.calls[i].val
                    /\ q.pc = "h_ta" => q.ok /\ q.text = q.calls[i].val

C4_Witness ==
    \E r \in Reqs :
        /\ req[r].pc = "h_ta"
        /\ \E i \in DOMAIN req[r].calls :
               /\ Is(req[r].calls[i], "_transcribe_with_openai", "ret_ok")
               /\ req[r].calls[i].val = <<"d">>

\* The key is missing, empty or made of whitespace only.
Unconfigured == \A i \in DOMAIN ApiKey : ApiKey[i] = " "

\* C5: with the remote credential unconfigured the remote stage is never
\* entered and the remote service never called, the fallback is the first
\* stage executed, and without the fallback library the result is exactly
\* (false, "SpeechRecognition is not available.").
C5_UnconfiguredSkipsRemote ==
    Unconfigured =>
        \A r \in Reqs :
            LET q == req[r]
            IN  /\ ~Called(q, RemoteDeps)
                /\ q.calls # <<>> /\ q.kind # "chat" =>
                       Is(q.calls[1], "_transcribe_with_speech_recognition", "call")
                /\ \A i \in DOMAIN q.calls :
                       (q.calls[i].dep = "transcribe_audio" /\ ~settings.sr_lib) =>
                           /\ q.calls[i].out = "ret_fail"
                           /\ q.calls[i].val = SrNotAvailable
                /\ (q.pc = "h_ta" /\ ~settings.sr_lib) =>
                       ~q.ok /\ q.text = SrNotAvailable

C5_Witness ==
    /\ settings.has_key /\ settings.key = <<" ">> /\ ~settings.sr_lib
    /\ \E r \in Reqs :
           /\ req[r].pc = "h_ta"
           /\ Is(req[r].calls[Len(req[r].calls)], "transcribe_audio", "ret_fail")

\* C6: voice_chat_view invokes send_chat only after transcribe_audio returned
\* ok=true with a transcript that is non-empty once trimmed; when it returned
\* ok=false or a blank transcript, send_chat is never invoked and the answer
\* has ok=false ("Transcript is empty." in the blank case).
C6_ChatOnlyAfterTranscript ==
    \A r \in Reqs :
        LET q == req[r]
        IN  q.kind = "voice_chat" =>
              /\ \A i \in DOMAIN q.calls :
                     q.calls[i].dep = "send_chat" =>
                         \E j \in 1 .. (i - 1) :
                             /\ Is(q.calls[j], "transcribe_audio", "ret_ok")
                             /\ Strip(q.calls[j].val) # <<>>
              /\ \A j \in DOMAIN q.calls :
                     (/\ q.calls[j].dep = "transcribe_audio"
                      /\ \/ q.calls[j].out = "ret_fail"
                         \/ Strip(q.calls[j].val) = <<>>) =>
                         /\ ~Called(q, {"send_chat", "chat.completions.create"})
                         /\ q.pc \in {"finally", "done"} =>
                                /\ q.out.kind = "response" /\ ~q.out.ok
                                /\ q.out.error = IF q.calls[j].out = "ret_fail"
                                                 THEN q.calls[j].val
                                                 ELSE TranscriptEmpty

C6_Witness ==
    \E r \in Reqs :
        /\ req[r].kind = "voice_chat" /\ req[r].pc = "done"
        /\ req[r].out.error = TranscriptEmpty
        /\ \E j \in DOMAIN req[r].calls :
               /\ Is(req[r].calls[j], "transcribe_audio", "ret_ok")
               /\ req[r].calls[j].val = <<" ">>

\* C7: when the remote stage was attempted and failed and the fallback stage
\* failed too, transcribe_audio returns (false, m) with m the fallback's (the
\* last failing stage's) message, or "Transcription failed." if that is
\* empty; a failed result never carries an empty message.
C7_ConsolidatedError ==
    \A r \in Reqs :
        LET q == req[r]
        IN  \A k \in DOMAIN q.calls :
                Is(q.calls[k], "transcribe_audio", "ret_fail") =>
                    /\ q.calls[k].val # <<>>
                    /\ q.pc = "h_ta" => ~q.ok /\ q.text = q.calls[k].val
                    /\ \A i, j \in 1 .. (k - 1) :
                           (/\ Is(q.calls[i], "_transcribe_with_openai", "ret_fail")
                            /\ Is(q.calls[j], "_transcribe_with_speech_recognition",
                                  "ret_fail")) =>
                               q.calls[k].val =
                                   IF q.calls[j].val = <<>> THEN TranscriptionFailed
                                   ELSE q.calls[j].val

C7_Witness ==
    \E r \in Reqs :
        LET q == req[r]
        IN  /\ q.pc = "h_ta"
            /\ \E i, j \in DOMAIN q.calls :
                   /\ Is(q.calls[i], "_transcribe_with_openai", "ret_fail")
                   /\ q.calls[i].val = OpenAIFailedPrefix \o <<"e">>
                   /\ Is(q.calls[j], "_transcribe_with_speech_recognition", "ret_fail")
                   /\ q.calls[j].val = SrFailedPrefix
            /\ q.text = SrFailedPrefix

\* The ordered strategy list of the specification: the text attribute, the
\* text key of the data structure, the text key of to_dict(), the stringified
\* response; each yields a string or nothing and the first non-empty one wins.
StrategyText(resp) ==
    LET s1 == IF resp.has_text /\ resp.text.t = "str" THEN resp.text.s ELSE <<>>
        s2 == IF resp.data.t = "dict" /\ resp.data.key = "str" THEN resp.data.s ELSE <<>>
        s3 == IF resp.has_to_dict /\ resp.to_dict.key = "str" THEN resp.to_dict.s
              ELSE <<>>
    IN  IF s1 # <<>> THEN s1
        ELSE IF s2 # <<>> THEN s2
        ELSE IF s3 # <<>> THEN s3
        ELSE RespRepr

\* C8: for every shape of remote response, the text of a successful
\* _transcribe_with_openai is the trimmed result of the ordered strategy list.
C8_ExtractionFollowsStrategies ==
    ex_out.ran => ex_out.ok /\ ex_out.text = Strip(StrategyText(ex_resp))

\* Where the code leaves the strategy list: only when no text attribute wins
\* and data is a non-empty value that is not a dict, which is then stringified.
ExtractionDivergesOnlyOnNonDictData ==
    ex_out.ran =>
        IF ~Truthy(AttrText(ex_resp)) /\ ex_resp.data.t \in {"list", "str"}
              /\ Truthy(ex_resp.data)
        THEN ex_out.text = Strip(PyStr(ex_resp.data))
        ELSE ex_out.text = Strip(StrategyText(ex_resp))

\* C9: in the fallback stage, once the audio is read the offline recognizer
\* is invoked first; the online recognizer is invoked only right after the
\* offline one raised; the stage fails with "SpeechRecognition failed: <d>"
\* exactly when both raised, d being the online recognizer's error, so that
\* the offline error is never what the result reports.
C9_OfflineThenOnline ==
    \A r \in Reqs :
        LET q == req[r]
            n == Len(q.calls)
        IN  \A i \in DOMAIN q.calls :
                /\ Is(q.calls[i], "record", "ret") =>
                       IF i = n THEN q.pc = "sr_sphinx"
                       ELSE q.calls[i + 1].dep = "recognize_sphinx"
                /\ q.calls[i].dep = "recognize_sphinx" =>
                       i > 1 /\ Is(q.calls[i - 1], "record", "ret")
                /\ q.calls[i].dep = "recognize_google" =>
                       i > 1 /\ Is(q.calls[i - 1], "recognize_sphinx", "raise")
                /\ Is(q.calls[i], "recognize_sphinx", "raise") =>
                       IF i = n THEN q.pc = "sr_google"
                       ELSE q.calls[i + 1].dep = "recognize_google"
                /\ Is(q.calls[i], "recognize_sphinx", "ret") =>
                       /\ i < n
                       /\ Is(q.calls[i + 1], "_transcribe_with_speech_recognition", "ret_ok")
                       /\ q.calls[i + 1].val = q.calls[i].val
                /\ Is(q.calls[i], "recognize_google", "ret") =>
                       /\ i < n
                       /\ Is(q.calls[i + 1], "_transcribe_with_speech_recognition", "ret_ok")
                       /\ q.calls[i + 1].val = q.calls[i].val
                /\ Is(q.calls[i], "recognize_google", "raise") =>
                       /\ i < n
                       /\ Is(q.calls[i + 1], "_transcribe_with_speech_recognition", "ret_fail")
                       /\ q.calls[i + 1].val = SrFailedPrefix \o q.calls[i].val
                /\ (/\ Is(q.calls[i], "_transcribe_with_speech_recognition", "ret_fail")
                    /\ q.calls[i].val # <<>>
                    /\ <<Head(q.calls[i].val)>> = SrFailedPrefix) =>
                       /\ i > 2
                       /\ Is(q.calls[i - 1], "recognize_google", "raise")
                       /\ Is(q.calls[i - 2], "recognize_sphinx", "raise")

C9_Witness ==
    \E r \in Reqs :
        LET q == req[r]
        IN  /\ q.pc = "ta_ret"
            /\ \E i \in DOMAIN q.calls :
                   /\ Is(q.calls[i], "recognize_sphinx", "raise")
                   /\ q.calls[i].val = <<"e">>
                   /\ i + 2 = Len(q.calls)
                   /\ Is(q.calls[i + 1], "recognize_google", "raise")
                   /\ q.calls[i + 1].val = <<>>
            /\ q.text = SrFailedPrefix

\* C10: under every interleaving of two workers, no two in-flight requests
\* hold the same temporary path, and the file a request has staged stays its
\* own until that request's cleanup: no other request's cleanup deletes it.
C10_ExclusiveStagedFiles ==
    /\ \A r1, r2 \in Reqs :
           (/\ r1 # r2 /\ InFlight(r1) /\ InFlight(r2)
            /\ req[r1].path # NoPath /\ req[r2].path # NoPath) =>
               req[r1].path # req[r2].path
    /\ \A r \in Reqs : Staged(r) => files[req[r].tmp_path] = r

C10_Witness ==
    /\ req["w1"].pc = "sr_record" /\ Staged("w1")
    /\ files[req["w1"].tmp_path] = "w1"
    /\ req["w2"].pc = "done" /\ req["w2"].tmp_path # NoPath
    /\ files[req["w2"].tmp_path] = NoFile

====
